---- MODULE Spec2Model ----
(***************************************************************************)
(* Model of f007th_send.cpp: the orchestration loop of main(), the         *)
(* dispatcher send() and the response-capture callback write_callback().   *)
(* The receiver (RFReceiver), the change tracker (SensorsData), the        *)
(* payload encoders (ReceivedMessage::json / influxDB) and libcurl are     *)
(* external: their results are nondeterministic inputs of the actions.     *)
(***************************************************************************)
EXTENDS Integers, Naturals, Sequences, FiniteSets, TLC

\* ------------------------------------------------------------------ bounds
\* capacity of the inbound response buffer (a macro of a header)
SERVER_RESPONSE_BUFFER_SIZE == 3
\* largest chunk (nmemb) libcurl hands to write_callback
MaxChunkLen == 2
\* largest number of chunks of one response
MaxChunks == 2
\* width in bits of size_t
SizeTBits == 16
\* largest number of elements of the command line after the program name
MaxArgs == 3

SizeTMod == 2 ^ SizeTBits

\* --------------------------------------------------------------- constants
REST == "REST"
InfluxDB == "InfluxDB"
ServerType == {REST, InfluxDB}

TEMPERATURE_IS_CHANGED == "TEMPERATURE_IS_CHANGED"
HUMIDITY_IS_CHANGED == "HUMIDITY_IS_CHANGED"
BATTERY_STATUS_IS_CHANGED == "BATTERY_STATUS_IS_CHANGED"
\* a change bitmask is the set of its flags; the integer 0 is the empty set
FullMask == {TEMPERATURE_IS_CHANGED, HUMIDITY_IS_CHANGED, BATTERY_STATUS_IS_CHANGED}
\* the bitmasks drawn as results of sensorsData.update
ChangeMasks ==
    { {}, {TEMPERATURE_IS_CHANGED},
      {HUMIDITY_IS_CHANGED, BATTERY_STATUS_IS_CHANGED}, FullMask }

VERBOSITY_INFO == "VERBOSITY_INFO"
VERBOSITY_PRINT_JSON == "VERBOSITY_PRINT_JSON"
VERBOSITY_PRINT_CURL == "VERBOSITY_PRINT_CURL"
VERBOSITY_PRINT_UNDECODED == "VERBOSITY_PRINT_UNDECODED"
VERBOSITY_PRINT_DETAILS == "VERBOSITY_PRINT_DETAILS"
VERBOSITY_PRINT_STATISTICS == "VERBOSITY_PRINT_STATISTICS"

\* the verbosity bitmask each option ors in (main, switch on the option)
OptionBits(opt) ==
    CASE opt = "v" -> {VERBOSITY_INFO}
      [] opt = "T" -> {VERBOSITY_PRINT_STATISTICS}
      [] opt = "V" -> {VERBOSITY_INFO, VERBOSITY_PRINT_JSON, VERBOSITY_PRINT_CURL,
                       VERBOSITY_PRINT_UNDECODED, VERBOSITY_PRINT_DETAILS}

\* the verbosity values the option loop can produce
Verbosities == { UNION {OptionBits(o) : o \in opts} : opts \in SUBSET {"v", "T", "V"} }

CURLE_OK == "CURLE_OK"
CURLE_COULDNT_CONNECT == "CURLE_COULDNT_CONNECT"
CURLE_WRITE_ERROR == "CURLE_WRITE_ERROR"
CURLE_RECV_ERROR == "CURLE_RECV_ERROR"
CURLE_ABORTED_BY_CALLBACK == "CURLE_ABORTED_BY_CALLBACK"

\* response status codes curl_easy_getinfo can report; 0 = no response received
HttpCodes == {0, 200, 204, 500}

\* lengths the payload encoders can return (<= 0: no payload produced)
EncoderLengths == {-1, 0, 1}

\* a received message: the three predicates main() consults
Messages == [isEmpty : BOOLEAN, isUndecoded : BOOLEAN, isValid : BOOLEAN]

\* the states of the change tracker, which only sensorsData.update changes
TrackerStates == {"s0", "s1"}

\* "f007th-send.log"
DefaultLogFile == <<"f", "0", "0", "7", "t", "h", "-", "s", "e", "n", "d", ".", "l", "o", "g">>

NoMessage == [isEmpty |-> TRUE, isUndecoded |-> FALSE, isValid |-> FALSE]

VARIABLES
    pc,               \* position of the single thread
    argv,             \* main: the command line, read by the option loop only
    gpio,             \* main: GPIO pin number
    server_url,       \* main: << >> is NULL, <<u>> the URL u
    log_file_path,    \* main: << >> is NULL, <<p>> the path p
    enabled,          \* receiver.enableReceive() was called
    sensorsData,      \* state of the change tracker
    changes_only,     \* main: false when --all was given
    server_type,      \* main: REST or InfluxDB
    verbosity,        \* main: set of verbosity flags
    stopped,          \* receiver.isStopped()
    message,          \* main: the message of this iteration
    isValid,          \* main: local of the decoded branch
    changed,          \* main: bitmask handed to send()
    data_size,        \* send: length returned by the encoder
    response_len,     \* send: data.response_len (size_t)
    response_off,     \* send: data.response_data - response_buffer
    response_first,   \* response_buffer[0]: 0 is NUL, 1 any other byte
    rc,               \* send: result of curl_easy_perform
    curl,             \* outstanding transport handles
    headers,          \* outstanding header lists
    result,           \* value returned by send()
    out,              \* diagnostics of this iteration: <<stream, text>>
    exit_status,      \* argument of exit(), -1 while the process runs
    hist              \* what happened in this iteration (history record)

\* the variables only the start-up of main() writes
cfgvars == <<argv, gpio, server_url, log_file_path, enabled>>

vars == <<pc, cfgvars, sensorsData, changes_only, server_type, verbosity, stopped, message, isValid,
          changed, data_size, response_len, response_off, response_first, rc,
          curl, headers, result, out, exit_status, hist>>

NoHistory ==
    [ waited       |-> FALSE,    \* waitForMessage returned true
      printed      |-> FALSE,    \* message.print was called
      processed    |-> FALSE,    \* the message was classified
      updates      |-> 0,        \* calls of sensorsData.update
      updateResult |-> << >>,   \* <<bitmask the change tracker returned>>
      decided      |-> << >>,   \* <<bitmask before the send policy was applied>>
      sendCalls    |-> 0,        \* calls of send()
      sendMask     |-> << >>,   \* <<the argument changed of send()>>
      encoder      |-> << >>,   \* <<encoder called, its change argument>>
      curlInits    |-> 0,        \* handles acquired by curl_easy_init
      slistAllocs  |-> 0,        \* header lists allocated
      request      |-> << >>,   \* <<headers, method, tracing, payload>> of the request;
                                \* the payload is named by the encoder call that wrote it
      exchanges    |-> 0,        \* calls of curl_easy_perform
      callbacks    |-> 0,        \* calls of write_callback
      delivered    |-> 0,        \* bytes libcurl handed to write_callback
      copied       |-> 0,        \* bytes memcpy'd into response_buffer
      termIdx      |-> -1,       \* index the terminator was written at
      http_code    |-> -1,       \* status curl_easy_getinfo reported
      cleanups     |-> 0,        \* calls of curl_easy_cleanup
      slistFrees   |-> 0,        \* calls of curl_slist_free_all
      returns      |-> 0,        \* returns of send()
      timerChecks  |-> 0,        \* calls of checkAndResetTimerEvent
      timerEvent   |-> << >>,   \* <<what checkAndResetTimerEvent returned>>
      statistics   |-> 0 ]       \* calls of printStatistics

Init ==
    /\ pc = "start"
    /\ argv = << >>
    /\ gpio = 27
    /\ server_url = << >>
    /\ log_file_path = << >>
    /\ enabled = FALSE
    /\ sensorsData = "s0"
    /\ changes_only = TRUE
    /\ server_type = REST
    /\ verbosity = {}
    /\ stopped = FALSE
    /\ message = NoMessage
    /\ isValid = FALSE
    /\ changed = {}
    /\ data_size = 0
    /\ response_len = 0
    /\ response_off = 0
    /\ response_first \in {0, 1}
    /\ rc = CURLE_OK
    /\ curl = 0
    /\ headers = 0
    /\ result = FALSE
    /\ out = << >>
    /\ exit_status = -1
    /\ hist = NoHistory

\* fputs/fprintf of text to stream when cond holds
Emit(o, cond, stream, text) == IF cond THEN Append(o, <<stream, text>>) ELSE o

\* ------------------------------------------------------- main(): start-up
\* a string is the sequence of its characters
UrlHttp == <<"h", "t", "t", "p", ":", "/", "/", "a">>
UrlHttps == <<"h", "t", "t", "p", "s", ":", "/", "/", "a">>
UrlFtp == <<"f", "t", "p", ":", "/", "/", "a">>
PrefixHttp == <<"h", "t", "t", "p", ":", "/", "/">>
PrefixHttps == <<"h", "t", "t", "p", "s", ":", "/", "/">>

\* strncmp(s, prefix, strlen(prefix)) == 0
StartsWith(s, prefix) ==
    /\ Len(s) >= Len(prefix)
    /\ SubSeq(s, 1, Len(prefix)) = prefix

\* an element of the command line: an option with its argument (num is what
\* strtol gives for it, str its text), or a non-option argument (opt "")
Arg(o, n, t) == [opt |-> o, num |-> n, str |-> t]

\* opt "?" is what getopt_long returns for an unknown option or a missing argument
ArgTokens ==
    {Arg("g", n, << >>) : n \in {0, 27, 54}}
    \cup {Arg(o, 0, << >>) : o \in {"A", "v", "V", "T", "?"}}
    \cup {Arg("s", 0, u) : u \in {<< >>, UrlHttp, UrlFtp}}
    \cup {Arg("t", 0, <<n>>) : n \in {"rest", "InfluxDB", "other"}}
    \cup {Arg("l", 0, DefaultLogFile)}
    \cup {Arg("", 0, u) : u \in {UrlHttps, UrlFtp}}

\* the command lines of at most MaxArgs elements after the program name
CommandLines == UNION {[1..n -> ArgTokens] : n \in 0..MaxArgs}

\* strcasecmp(optarg, name) == 0, on the names the model draws
SameNameIgnoringCase(optarg, name) ==
    LET lower == [n \in {"rest", "REST", "InfluxDB", "influxdb", "other"} |->
                    CASE n \in {"rest", "REST"} -> "rest"
                      [] n \in {"InfluxDB", "influxdb"} -> "influxdb"
                      [] OTHER -> n]
    IN lower[optarg] = lower[name]

\* if (long_value<=0 || long_value>53)
GpioInvalidOnlyAbove(n) == n > 53
GpioInvalid(n) == n <= 0 \/ n > 53

\* if (strncmp(server_url, "http://", 7) != 0 && strncmp(server_url, "https://", 8))
UrlSchemeInvalid(u) == ~StartsWith(u, PrefixHttp) /\ ~StartsWith(u, PrefixHttps)

\* the configuration before the option loop
DefaultConfig ==
    [ err |-> "", gpio |-> 27, changes_only |-> TRUE, verbosity |-> {},
      log_file_path |-> << >>, server_url |-> << >>, server_type |-> REST ]

\* one pass of the switch of the option loop over the option a
ParseOption(c, a) ==
    CASE a.opt = "g" ->
           IF GpioInvalid(a.num)
             THEN [c EXCEPT !.err = "ERROR: Invalid GPIO pin number"]
             ELSE [c EXCEPT !.gpio = a.num]
      [] a.opt = "A" -> [c EXCEPT !.changes_only = FALSE]
      [] a.opt = "v" -> [c EXCEPT !.verbosity = @ \cup OptionBits("v")]
      [] a.opt = "l" -> [c EXCEPT !.log_file_path = <<a.str>>]
      [] a.opt = "s" -> [c EXCEPT !.server_url = <<a.str>>]
      [] a.opt = "t" ->
           IF SameNameIgnoringCase(a.str[1], "REST")
             THEN [c EXCEPT !.server_type = REST]
             ELSE IF SameNameIgnoringCase(a.str[1], "InfluxDB")
                    THEN [c EXCEPT !.server_type = InfluxDB]
                    ELSE [c EXCEPT !.err = "ERROR: Unknown server type"]
      [] a.opt = "T" -> [c EXCEPT !.verbosity = @ \cup OptionBits("T")]
      [] a.opt = "V" -> [c EXCEPT !.verbosity = @ \cup OptionBits("V")]
      [] a.opt = "?" -> [c EXCEPT !.err = "usage"]
      [] OTHER -> [c EXCEPT !.err = "ERROR: Unknown option"]

\* the option loop from the i-th element on: getopt_long hands over the
\* options in order and skips the non-options; help() ends it at once
RECURSIVE ParseOptions(_, _, _)
ParseOptions(args, i, c) ==
    IF i > Len(args) \/ c.err # ""
      THEN c
      ELSE ParseOptions(args, i + 1,
                        IF args[i].opt = "" THEN c ELSE ParseOption(c, args[i]))

\* the non-option arguments, which getopt_long moves behind the options
Positionals(args) == SelectSeq(args, LAMBDA a : a.opt = "")

\* main() from its entry to the last check of the configuration
ParseCommandLine(args) ==
    IF Len(args) = 0
      THEN [DefaultConfig EXCEPT !.err = "usage"]
      ELSE
        LET c1 == ParseOptions(args, 1, DefaultConfig)
            rest == Positionals(args)
            c2 == IF c1.err # "" \/ Len(rest) = 0 THEN c1
                  ELSE IF Len(rest) # 1 THEN [c1 EXCEPT !.err = "usage"]
                  ELSE [c1 EXCEPT !.server_url = <<rest[1].str>>]
        IN
        IF c2.err # "" THEN c2
        ELSE IF c2.server_url = << >> \/ c2.server_url[1] = << >>
          THEN [c2 EXCEPT !.err = "ERROR: Server URL must be specified (options --send-to or -s)."]
        ELSE IF UrlSchemeInvalid(c2.server_url[1])
          THEN [c2 EXCEPT !.err = "ERROR: Server URL must be HTTP or HTTPS."]
        ELSE c2

\* main() reads its command line
ParseArgs ==
    /\ pc = "start"
    /\ \E args \in CommandLines :
         LET c == ParseCommandLine(args) IN
         /\ argv' = args
         /\ IF c.err # ""
              THEN /\ out' = Emit(out, c.err # "usage", "stderr", c.err)
                   /\ pc' = "help"
                   /\ UNCHANGED <<gpio, changes_only, verbosity, log_file_path,
                                  server_url, server_type>>
              ELSE /\ gpio' = c.gpio
                   /\ changes_only' = c.changes_only
                   /\ verbosity' = c.verbosity
                   /\ log_file_path' = c.log_file_path
                   /\ server_url' = c.server_url
                   /\ server_type' = c.server_type
                   /\ pc' = "setup"
                   /\ UNCHANGED out
    /\ UNCHANGED <<enabled, sensorsData, stopped, message, isValid, changed,
                   data_size, response_len, response_off, response_first, rc,
                   curl, headers, result, exit_status, hist>>

\* help(): the usage text, then exit(1)
Help ==
    /\ pc = "help"
    /\ out' = Emit(out, TRUE, "stderr", "usage")
    /\ exit_status' = 1
    /\ pc' = "done"
    /\ UNCHANGED <<cfgvars, sensorsData, changes_only, server_type, verbosity,
                   stopped, message, isValid, changed, data_size, response_len,
                   response_off, response_first, rc, curl, headers, result, hist>>

\* main() between the checks of the configuration and the loop: the default
\* log file, the buffers, the receiver
Setup ==
    /\ pc = "setup"
    /\ log_file_path' = IF log_file_path = << >> \/ log_file_path[1] = << >>
                          THEN <<DefaultLogFile>> ELSE log_file_path
    /\ enabled' = TRUE
    /\ argv' = << >>
    /\ out' = Emit(out, VERBOSITY_INFO \in verbosity, "stderr", "Receiving data...")
    /\ pc' = "loop"
    /\ UNCHANGED <<gpio, server_url, sensorsData, changes_only, server_type,
                   verbosity, stopped, message, isValid, changed, data_size,
                   response_len, response_off, response_first, rc, curl,
                   headers, result, exit_status, hist>>

\* ---------------------------------------------------------------- main()
\* the receiver is stopped from outside the loop (signal handler)
Stop ==
    /\ ~stopped
    /\ enabled
    /\ pc # "done"
    /\ stopped' = TRUE
    /\ UNCHANGED <<pc, changes_only, server_type, verbosity, message, isValid,
                   changed, data_size, response_len, response_off,
                   response_first, rc, curl, headers, result, out, hist, exit_status, cfgvars, sensorsData>>

\* while(!receiver.isStopped()): an iteration starts, the locals of the
\* previous one are out of scope and its history is dropped
LoopTest ==
    /\ pc = "loop"
    /\ pc' = IF stopped THEN "exiting" ELSE "wait"
    /\ hist' = NoHistory
    /\ out' = << >>
    /\ isValid' = FALSE
    /\ changed' = {}
    /\ data_size' = 0
    /\ response_len' = 0
    /\ response_off' = 0
    /\ rc' = CURLE_OK
    /\ result' = FALSE
    /\ UNCHANGED <<changes_only, server_type, verbosity, stopped, message,
                   response_first, curl, headers, exit_status, cfgvars, sensorsData>>

\* if (receiver.waitForMessage(message))
WaitForMessage ==
    /\ pc = "wait"
    /\ \E got \in BOOLEAN, m \in Messages :
         IF got
           THEN /\ message' = m
                /\ hist' = [hist EXCEPT !.waited = TRUE]
                /\ pc' = "stopcheck"
           ELSE /\ UNCHANGED <<message, hist>>
                /\ pc' = "timer"
    /\ UNCHANGED <<changes_only, server_type, verbosity, stopped, isValid,
                   changed, data_size, response_len, response_off,
                   response_first, rc, curl, headers, result, out, exit_status, cfgvars, sensorsData>>

\* if (receiver.isStopped()) break;
AfterWaitIgnoreStop(stop) == "process"
AfterWait(stop) == IF stop THEN "exiting" ELSE "process"

StopCheck ==
    /\ pc = "stopcheck"
    /\ pc' = AfterWait(stopped)
    /\ UNCHANGED <<changes_only, server_type, verbosity, stopped, message,
                   isValid, changed, data_size, response_len, response_off,
                   response_first, rc, curl, headers, result, out, hist, exit_status, cfgvars, sensorsData>>

\* the messages that are reported only: isEmpty(), else isUndecoded()
ReportOnlyNoUndecoded(m) == m.isEmpty
ReportOnly(m) == m.isEmpty \/ m.isUndecoded

\* isValid ? sensorsData.update(...) : 0 calls update only in its first branch
CallsUpdateAlways(valid) == TRUE
CallsUpdate(valid) == valid

\* int changed = isValid ? sensorsData.update(message.getData()) : 0;
ChangedOfAlwaysUpdate(valid, mask) == mask
ChangedOf(valid, mask) == IF valid THEN mask ELSE {}

\* if (changed == 0 && !changes_only && (isValid || server_type==REST)) changed = full
ApplyPolicyIgnoreChangesOnly(chg, only, valid, stype) ==
    IF chg = {} /\ (valid \/ stype = REST) THEN FullMask ELSE chg
ApplyPolicyAnyServer(chg, only, valid, stype) ==
    IF chg = {} /\ ~only THEN FullMask ELSE chg
ApplyPolicyValidOnly(chg, only, valid, stype) ==
    IF chg = {} /\ ~only /\ valid THEN FullMask ELSE chg
ApplyPolicy(chg, only, valid, stype) ==
    IF chg = {} /\ ~only /\ (valid \/ stype = REST) THEN FullMask ELSE chg

\* the message is classified and, when decoded, the send policy decides
ProcessMessage ==
    /\ pc = "process"
    /\ LET info == VERBOSITY_INFO \in verbosity
           o1 == Emit(Emit(out, info, "stdout", "message"), info, "log", "message")
       IN
       IF ReportOnly(message)
         THEN /\ out' = IF message.isEmpty
                          THEN Emit(o1, TRUE, "stderr", "ERROR: Missing data.")
                          ELSE Emit(o1, info, "stderr", "Could not decode the received data")
              /\ hist' = [hist EXCEPT !.printed = info, !.processed = TRUE]
              /\ pc' = "timer"
              /\ UNCHANGED <<isValid, changed, sensorsData>>
         ELSE \E mask \in ChangeMasks, tracked \in TrackerStates :
                LET valid == message.isValid
                    c0 == ChangedOf(valid, mask)
                    c1 == ApplyPolicy(c0, changes_only, valid, server_type)
                IN
                \* mask is what sensorsData.update returns and tracked the
                \* state it leaves; it is called only for a valid message
                /\ sensorsData' = IF CallsUpdate(valid) THEN tracked ELSE sensorsData
                /\ isValid' = valid
                /\ changed' = c1
                /\ hist' = [hist EXCEPT !.printed = info,
                                        !.processed = TRUE,
                                        !.updates = IF CallsUpdate(valid) THEN 1 ELSE 0,
                                        !.updateResult = IF CallsUpdate(valid) THEN <<mask>> ELSE << >>,
                                        !.decided = <<c0>>]
                /\ IF c1 # {}
                     THEN /\ pc' = "send"
                          /\ out' = o1
                     ELSE /\ pc' = "timer"
                          /\ out' = IF ~valid
                                      THEN Emit(o1, info, "stderr", "Data is not valid and is not sent to server.")
                                      ELSE Emit(o1, info, "stderr", "Data is not changed and is not sent to server.")
    /\ UNCHANGED <<changes_only, server_type, verbosity, stopped, message,
                   data_size, response_len, response_off, response_first, rc,
                   curl, headers, result, exit_status, cfgvars>>

\* ---------------------------------------------------------------- send()
\* if (data_size <= 0) return false;
NoPayloadOnlyNegative(n) == n < 0
NoPayload(n) == n <= 0

\* the encoder send() calls and the change argument it hands over:
\* influxDB(.., changed, ..) or json(.., true, ..)
\* as <<encoder, <<change bitmask handed over>>>>; json() gets none
EncoderCallJsonMasked(stype, chg) ==
    IF stype = InfluxDB THEN <<"influxDB", <<chg>>>> ELSE <<"json", <<chg>>>>
EncoderCall(stype, chg) ==
    IF stype = InfluxDB THEN <<"influxDB", <<chg>>>> ELSE <<"json", << >>>>

\* send(), from its entry to the set-up of struct PutData
SendEncode ==
    /\ pc = "send"
    /\ LET verbose == VERBOSITY_PRINT_DETAILS \in verbosity
           o1 == Emit(out, verbose, "stderr", "===> called send()")
           h1 == [hist EXCEPT !.sendCalls = @ + 1,
                              !.sendMask = <<changed>>,
                              !.encoder = EncoderCall(server_type, changed)]
       IN
       \E n \in EncoderLengths :
         /\ data_size' = n
         /\ IF NoPayload(n)
              THEN /\ out' = Emit(o1, verbose, "stderr",
                                  "===> return from send() without sending because output data was not generated")
                   /\ result' = FALSE
                   /\ hist' = [h1 EXCEPT !.returns = @ + 1]
                   /\ pc' = "send_return"
                   /\ UNCHANGED <<response_len, response_off, response_first>>
              ELSE /\ out' = o1
                   /\ response_len' = SERVER_RESPONSE_BUFFER_SIZE
                   /\ response_off' = 0
                   /\ response_first' = 0
                   /\ hist' = h1
                   /\ pc' = "curl_init"
                   /\ UNCHANGED result
    /\ UNCHANGED <<changes_only, server_type, verbosity, stopped, message,
                   isValid, changed, rc, curl, headers, exit_status, cfgvars, sensorsData>>

\* the header list send() builds for the protocol
HeaderList(stype) ==
    IF stype = REST
      THEN <<"Content-Type: application/json", "Accept: application/json",
             "charsets: utf-8", "Connection: close">>
      ELSE <<"Content-Type:", "Accept:">>

\* CURLOPT_CUSTOMREQUEST
MethodAlwaysPut(stype) == "PUT"
Method(stype) == IF stype = InfluxDB THEN "POST" ELSE "PUT"

\* curl_easy_init and, when it gives a handle, the options of the request
SendCurlInit ==
    /\ pc = "curl_init"
    /\ LET verbose == VERBOSITY_PRINT_DETAILS \in verbosity IN
       \E ok \in BOOLEAN :
         IF ~ok
           THEN /\ out' = Emit(Emit(out, TRUE, "stderr", "ERROR: Failed to get curl handle."),
                               verbose, "stderr",
                               "===> return from send() without sending because failed to initialize curl")
                /\ result' = FALSE
                /\ hist' = [hist EXCEPT !.returns = @ + 1]
                /\ pc' = "send_return"
                /\ UNCHANGED <<curl, headers>>
           ELSE /\ curl' = curl + 1
                /\ headers' = headers + 1
                /\ hist' = [hist EXCEPT !.curlInits = @ + 1,
                                        !.slistAllocs = @ + 1,
                                        !.request = <<HeaderList(server_type),
                                                     Method(server_type),
                                                     VERBOSITY_PRINT_CURL \in verbosity,
                                                     hist.encoder>>]
                /\ pc' = "perform"
                /\ UNCHANGED <<out, result>>
    /\ UNCHANGED <<changes_only, server_type, verbosity, stopped, message,
                   isValid, changed, data_size, response_len, response_off,
                   response_first, rc, exit_status, cfgvars, sensorsData>>

\* curl_easy_perform starts: the connection is made or fails
PerformConnect ==
    /\ pc = "perform"
    /\ hist' = [hist EXCEPT !.exchanges = @ + 1]
    /\ \E connected \in BOOLEAN :
         IF connected
           THEN /\ pc' = "receiving"
                /\ UNCHANGED rc
           ELSE /\ pc' = "finish"
                /\ rc' = CURLE_COULDNT_CONNECT
    /\ UNCHANGED <<changes_only, server_type, verbosity, stopped, message,
                   isValid, changed, data_size, response_len, response_off,
                   response_first, curl, headers, result, out, exit_status, cfgvars, sensorsData>>

\* size_t to_copy = (data->response_len < curl_size) ? data->response_len : curl_size;
ToCopyUnbounded(len, curl_size) == curl_size
ToCopy(len, curl_size) == IF len < curl_size THEN len ELSE curl_size

\* the value write_callback returns
CallbackReturn(to_copy, size) == IF to_copy > 0 THEN to_copy ELSE size

\* libcurl delivers one chunk of the response body to write_callback
\* (size is always 1); a return value other than the chunk's length aborts
\* the transfer with CURLE_WRITE_ERROR
WriteCallback ==
    /\ pc = "receiving"
    /\ hist.callbacks < MaxChunks
    /\ \E nmemb \in 0..MaxChunkLen, first \in {0, 1} :
         LET size == 1
             curl_size == nmemb * size
             to_copy == ToCopy(response_len, curl_size)
             ret == CallbackReturn(to_copy, size)
         IN
         /\ out' = Emit(out, VERBOSITY_PRINT_DETAILS \in verbosity, "stderr", "receiving bytes")
         /\ response_len' = IF to_copy > 0 THEN (response_len - to_copy) % SizeTMod
                                           ELSE response_len
         /\ response_off' = IF to_copy > 0 THEN response_off + to_copy ELSE response_off
         /\ response_first' = IF to_copy > 0 /\ response_off = 0 THEN first
                                                                 ELSE response_first
         /\ hist' = [hist EXCEPT !.callbacks = @ + 1,
                                 !.delivered = @ + curl_size,
                                 !.copied = @ + to_copy]
         /\ IF ret = curl_size
              THEN UNCHANGED <<pc, rc>>
              ELSE /\ pc' = "finish"
                   /\ rc' = CURLE_WRITE_ERROR
    /\ UNCHANGED <<changes_only, server_type, verbosity, stopped, message,
                   isValid, changed, data_size, curl, headers, result, exit_status, cfgvars, sensorsData>>

\* curl_easy_perform returns after the last chunk
PerformEnd ==
    /\ pc = "receiving"
    /\ rc' \in {CURLE_OK, CURLE_RECV_ERROR, CURLE_ABORTED_BY_CALLBACK}
    /\ pc' = "finish"
    /\ UNCHANGED <<changes_only, server_type, verbosity, stopped, message,
                   isValid, changed, data_size, response_len, response_off,
                   response_first, curl, headers, result, out, hist, exit_status, cfgvars, sensorsData>>

\* if (data.response_len <= 0) data.response_len = data.response_len-1;  (size_t)
ClampRemaining(len) == IF len <= 0 THEN (len - 1) % SizeTMod ELSE len

\* the index of response_buffer[SERVER_RESPONSE_BUFFER_SIZE-data.response_len]
TerminatorIndex(len) == (SERVER_RESPONSE_BUFFER_SIZE - len) % SizeTMod

\* the status send() expects of the protocol
ExpectedCode(stype) == IF stype = InfluxDB THEN 204 ELSE 200

\* bool success = rc == CURLE_OK; if (http_code != expected) success = false;
SuccessIgnoreStatus(r, code, stype) == r = CURLE_OK
Success(r, code, stype) == r = CURLE_OK /\ code = ExpectedCode(stype)

\* if (headers != NULL) curl_slist_free_all(headers): lists freed, given the
\* number of lists this call allocated
HeadersFreedNever(allocs) == 0
HeadersFreed(allocs) == IF allocs # 0 THEN 1 ELSE 0

\* "ERROR: Sending data to %s failed: %s\n" with curl_easy_strerror(rc)
TransportMessage(r) == "ERROR: Sending data failed: " \o r

\* what send() prints to stderr for a status other than the expected one
StatusStderrMessage(code) ==
    IF code = 0 THEN "ERROR: Failed to connect to server"
                ELSE "ERROR: Got HTTP status code " \o ToString(code)

\* what send() prints to the log for a status other than the expected one:
\* fprintf(log, "ERROR: Got HTTP status code %ld.\n", http_code)
StatusLogMessage(code) == "ERROR: Got HTTP status code " \o ToString(code)

\* the captured response, as fputs(response_buffer, ..) prints it
ResponseBody == "response body"

\* send() after curl_easy_perform: diagnostics, terminator, classification
\* by curl_easy_getinfo's status, release of the handle and the list, return
SendFinish ==
    /\ pc = "finish"
    /\ \E http_code \in HttpCodes :
         /\ rc = CURLE_COULDNT_CONNECT => http_code = 0
         /\ LET verbose == VERBOSITY_PRINT_DETAILS \in verbosity
                failed == rc # CURLE_OK
                o1 == Emit(Emit(out, failed, "stderr", TransportMessage(rc)),
                           failed, "log", TransportMessage(rc))
                \* fputs(response_buffer, ..) writes the bytes before the first NUL
                body == response_first # 0
                echo == verbose /\ body
                len1 == IF echo THEN ClampRemaining(response_len) ELSE response_len
                idx == IF echo THEN TerminatorIndex(len1) ELSE -1
                o2 == Emit(Emit(o1, echo, "stderr", ResponseBody), echo, "stderr", "\n")
                wrong == http_code # ExpectedCode(server_type)
                aborted == rc = CURLE_ABORTED_BY_CALLBACK
                o3 == IF wrong
                        THEN Emit(Emit(Emit(Emit(Emit(Emit(o2,
                               TRUE, "stderr", StatusStderrMessage(http_code)),
                               verbose /\ body, "log", ResponseBody),
                               verbose, "log", "\n"),
                               TRUE, "log", StatusLogMessage(http_code)),
                               body, "log", ResponseBody),
                               TRUE, "log", "\n")
                        ELSE Emit(Emit(o2,
                               aborted, "stderr", "ERROR: HTTP request was aborted."),
                               aborted, "log", "ERROR: HTTP request was aborted.")
                freed == HeadersFreed(hist.slistAllocs)
            IN
            /\ response_len' = len1
            /\ response_first' = IF idx = 0 THEN 0 ELSE response_first
            /\ out' = Emit(o3, verbose, "stderr", "===> return from send()")
            /\ curl' = curl - 1
            /\ headers' = headers - freed
            /\ result' = Success(rc, http_code, server_type)
            /\ hist' = [hist EXCEPT !.termIdx = idx,
                                    !.http_code = http_code,
                                    !.cleanups = @ + 1,
                                    !.slistFrees = @ + freed,
                                    !.returns = @ + 1]
    /\ pc' = "send_return"
    /\ UNCHANGED <<changes_only, server_type, verbosity, stopped, message,
                   isValid, changed, data_size, response_off, rc, exit_status, cfgvars, sensorsData>>

\* where main() continues when send() has returned
AfterSendRetry(res) == IF res THEN "timer" ELSE "send"
AfterSendSkipTimer(res) == "loop"
AfterSend(res) == "timer"

\* if (!send(...) && (verbosity&VERBOSITY_INFO) != 0) fputs("No data was sent to server.\n", stderr);
SendReturn ==
    /\ pc = "send_return"
    /\ out' = Emit(out, ~result /\ VERBOSITY_INFO \in verbosity, "stderr",
                   "No data was sent to server.")
    /\ pc' = AfterSend(result)
    /\ UNCHANGED <<changes_only, server_type, verbosity, stopped, message,
                   isValid, changed, data_size, response_len, response_off,
                   response_first, rc, curl, headers, result, hist, exit_status, cfgvars, sensorsData>>

\* if (receiver.checkAndResetTimerEvent()) receiver.printStatistics();
\* the timer runs only when printStatisticsPeriodically was called
TimerCheck ==
    /\ pc = "timer"
    /\ \E event \in (IF VERBOSITY_PRINT_STATISTICS \in verbosity THEN BOOLEAN ELSE {FALSE}) :
         hist' = [hist EXCEPT !.timerChecks = @ + 1,
                              !.timerEvent = <<event>>,
                              !.statistics = IF event THEN @ + 1 ELSE @]
    /\ pc' = "loop"
    /\ UNCHANGED <<changes_only, server_type, verbosity, stopped, message,
                   isValid, changed, data_size, response_len, response_off,
                   response_first, rc, curl, headers, result, out, exit_status, cfgvars, sensorsData>>

\* after the loop: the buffers and the log are released and exit(0)
Exit ==
    /\ pc = "exiting"
    /\ out' = Emit(out, VERBOSITY_INFO \in verbosity, "stderr", "Exiting...")
    /\ exit_status' = 0
    /\ pc' = "done"
    /\ UNCHANGED <<changes_only, server_type, verbosity, stopped, message,
                   isValid, changed, data_size, response_len, response_off,
                   response_first, rc, curl, headers, result, hist, cfgvars, sensorsData>>

Next ==
    \/ ParseArgs
    \/ Help
    \/ Setup
    \/ Stop
    \/ LoopTest
    \/ WaitForMessage
    \/ StopCheck
    \/ ProcessMessage
    \/ SendEncode
    \/ SendCurlInit
    \/ PerformConnect
    \/ WriteCallback
    \/ PerformEnd
    \/ SendFinish
    \/ SendReturn
    \/ TimerCheck
    \/ Exit

Spec == Init /\ [][Next]_vars

TypeOK ==
    /\ pc \in {"start", "help", "setup", "loop", "wait", "stopcheck", "process", "send", "curl_init",
               "perform", "receiving", "finish", "send_return", "timer",
               "exiting", "done"}
    /\ response_len \in 0..(SizeTMod - 1)
    /\ curl \in 0..1
    /\ headers \in 0..1

\* ------------------------------------------------------------ properties
\* the positions inside send(), from its call to its return
InSend == {"send", "curl_init", "perform", "receiving", "finish", "send_return"}

\* send() was neither called nor is about to be called in this iteration
NoSend == hist.sendCalls = 0 /\ pc \notin InSend

\* the message of this iteration was classified as decoded and non-empty
Decoded == hist.processed /\ ~message.isEmpty /\ ~message.isUndecoded

\* C1: with the override policy disabled, a message for which the change
\* tracker returned the bitmask 0 never reaches send(), for either protocol
C1_NoSendWhenUnchanged ==
    (changes_only /\ hist.updateResult = <<{}>>) => NoSend

C1_Witness ==
    /\ changes_only
    /\ hist.updateResult = <<{}>>
    /\ server_type = InfluxDB
    /\ pc = "timer"

\* C2: with the override policy disabled, an invalid message never reaches
\* send(), whatever the change tracker would return and whatever the protocol
C2_NoSendWhenInvalid ==
    (changes_only /\ hist.waited /\ ~message.isValid) => NoSend

C2_Witness ==
    /\ changes_only
    /\ Decoded
    /\ ~message.isValid
    /\ pc = "timer"

\* send() is being called, or was called, with the bitmask mask
SentWith(mask) ==
    \/ pc = "send" /\ changed = mask
    \/ hist.sendCalls = 1 /\ hist.sendMask = <<mask>>

\* C3 as stated: with the override policy enabled every decoded message that
\* is valid, or that goes to REST, is dispatched with the full bitmask,
\* whatever bitmask the change tracker returned
C3_AlwaysFullMask ==
    (~changes_only /\ Decoded /\ (message.isValid \/ server_type = REST))
        => SentWith(FullMask)

\* C3 amended: with the override policy enabled every decoded message that
\* is valid, or that goes to REST, is dispatched; the bitmask is the change
\* tracker's when that is non-zero and the full bitmask otherwise (tracker
\* returned 0, or the message is invalid and the tracker was not asked)
C3_DispatchedFullWhenZero ==
    (~changes_only /\ Decoded /\ (message.isValid \/ server_type = REST))
        => SentWith(IF hist.updateResult \in {<< >>, <<{}>>}
                      THEN FullMask ELSE hist.updateResult[1])

C3_Witness ==
    /\ ~changes_only
    /\ Decoded
    /\ ~message.isValid
    /\ server_type = REST
    /\ hist.sendCalls = 1
    /\ hist.sendMask = <<FullMask>>

\* C4: send() returns true exactly when the exchange completed with CURLE_OK
\* and the status is the protocol's (200 for REST, 204 for InfluxDB)
C4_SuccessIffOkAndExpected ==
    pc = "send_return" =>
        (result <=> /\ hist.exchanges = 1
                    /\ rc = CURLE_OK
                    /\ \/ server_type = REST /\ hist.http_code = 200
                       \/ server_type = InfluxDB /\ hist.http_code = 204)

C4_Witness ==
    /\ pc = "send_return"
    /\ hist.exchanges = 1
    /\ rc = CURLE_OK
    /\ hist.http_code = 0
    /\ ~result

\* C5: when the encoder returns a length <= 0, send() returns false at once:
\* no handle is acquired, no header list allocated, no exchange attempted
C5_NoPayloadNoResource ==
    (hist.sendCalls = 1 /\ data_size <= 0) =>
        /\ pc \notin {"curl_init", "perform", "receiving", "finish"}
        /\ ~result
        /\ hist.returns = 1
        /\ hist.curlInits = 0 /\ hist.slistAllocs = 0 /\ hist.exchanges = 0
        /\ curl = 0 /\ headers = 0

C5_Witness ==
    /\ pc = "send_return"
    /\ hist.sendCalls = 1
    /\ data_size = 0

\* C6: during an exchange, after every call of write_callback, the bytes
\* copied plus response_len make the capacity, response_len has not
\* underflowed and the write pointer is inside the buffer
C6_CaptureBounded ==
    pc \in {"receiving", "finish"} =>
        /\ hist.copied + response_len = SERVER_RESPONSE_BUFFER_SIZE
        /\ hist.copied <= SERVER_RESPONSE_BUFFER_SIZE
        /\ response_len \in 0..SERVER_RESPONSE_BUFFER_SIZE
        /\ response_off \in 0..SERVER_RESPONSE_BUFFER_SIZE

C6_Witness ==
    /\ pc = "finish"
    /\ hist.callbacks >= 2
    /\ rc = CURLE_WRITE_ERROR
    /\ hist.copied = SERVER_RESPONSE_BUFFER_SIZE
    /\ response_len = 0

\* C7: the remaining-capacity counter never wraps and the terminator written
\* after the exchange is at an index in 0..SERVER_RESPONSE_BUFFER_SIZE-1
C7_TerminatorInBounds ==
    /\ response_len <= SERVER_RESPONSE_BUFFER_SIZE
    /\ hist.termIdx \in -1..(SERVER_RESPONSE_BUFFER_SIZE - 1)

C9_ReportOnlyNeverSent ==
    (hist.processed /\ (message.isEmpty \/ message.isUndecoded)) => NoSend

C9_Witness ==
    /\ hist.processed
    /\ message.isUndecoded /\ ~message.isEmpty /\ message.isValid
    /\ ~changes_only
    /\ server_type = REST
    /\ pc = "timer"

\* C10: a message causes at most one call of send() and at most one
\* exchange; when send() has returned, successfully or not, the loop goes on
\* to the timer check and the next wait, and it ends only when stopped
C10_AtMostOnceNoHalt ==
    [][ /\ hist'.sendCalls <= 1
        /\ hist'.exchanges <= 1
        /\ (pc = "send_return" /\ pc' # pc) => (pc' = "timer" /\ hist' = hist)
        /\ (pc = "timer" /\ pc' # pc) => pc' = "loop"
        /\ (pc = "loop" /\ pc' # pc /\ ~stopped) => pc' = "wait"
        /\ (pc' = "exiting" \/ exit_status' = 0) => stopped' ]_vars

C10_Witness ==
    /\ pc = "timer"
    /\ hist.sendCalls = 1
    /\ hist.exchanges = 1
    /\ ~result
    /\ ~stopped

\* the texts stream got in this iteration
Printed(stream) == {out[k][2] : k \in {i \in 1..Len(out) : out[i][1] = stream}}

\* the texts of the status-mismatch message
StatusMismatchTexts == {"ERROR: Got HTTP status code " \o ToString(c) : c \in HttpCodes}

C13_ZeroMaskStillSent ==
    (~changes_only /\ Decoded /\ message.isValid /\ hist.updateResult = <<{}>>) =>
        /\ SentWith(FullMask)
        /\ (server_type = InfluxDB /\ hist.exchanges = 1) =>
             /\ hist.request[2] = "POST"
             /\ hist.request[4] = <<"influxDB", <<FullMask>>>>

C13_Witness ==
    /\ ~changes_only
    /\ Decoded
    /\ message.isValid
    /\ hist.updateResult = <<{}>>
    /\ server_type = InfluxDB
    /\ hist.exchanges = 1
    /\ hist.sendMask = <<FullMask>>

\* C14: when the stop is seen after the wait, the loop is left without
\* processing the message (no print, no tracker update, no send()) and the
\* process ends with exit status 0
C14_StopSkipsMessage ==
    [][ /\ (pc = "stopcheck" /\ stopped /\ pc' # pc) =>
              (pc' = "exiting" /\ hist' = hist /\ out' = out /\ sensorsData' = sensorsData)
        /\ (pc = "exiting" /\ pc' # pc) =>
              (pc' = "done" /\ exit_status' = 0 /\ hist' = hist /\ sensorsData' = sensorsData)
        /\ pc' \in {"exiting", "done"} =>
              /\ ~hist'.printed /\ ~hist'.processed
              /\ hist'.updates = 0 /\ hist'.sendCalls = 0 ]_vars

C14_Witness ==
    /\ pc = "done"
    /\ exit_status = 0
    /\ hist.waited
    /\ VERBOSITY_INFO \in verbosity

\* the URL main() ends up with: the non-option argument, else the last -s
GivenUrl(args) ==
    LET rest == SelectSeq(args, LAMBDA a : a.opt = "")
        sent == SelectSeq(args, LAMBDA a : a.opt = "s")
    IN IF Len(rest) > 0 THEN <<rest[1].str>>
       ELSE IF Len(sent) > 0 THEN <<sent[Len(sent)].str>>
       ELSE << >>

\* the command line has one of the configuration errors
ConfigError(args) ==
    \/ Len(args) = 0
    \/ \E i \in 1..Len(args) :
         \/ args[i].opt = "g" /\ (args[i].num < 1 \/ args[i].num > 53)
         \/ args[i].opt = "t" /\ args[i].str[1] \notin {"REST", "rest", "InfluxDB", "influxdb"}
         \/ args[i].opt = "?"
    \/ Len(SelectSeq(args, LAMBDA a : a.opt = "")) > 1
    \/ GivenUrl(args) \in {<< >>, << << >> >>}
    \/ LET u == GivenUrl(args)[1] IN
         /\ ~(Len(u) >= 7 /\ SubSeq(u, 1, 7) = PrefixHttp)
         /\ ~(Len(u) >= 8 /\ SubSeq(u, 1, 8) = PrefixHttps)

\* C15: every configuration error ends in help() and exit status 1 before
\* the receiver is enabled, a message awaited or send() called; exit status
\* 0 comes only after the loop has ended
C15_ConfigErrorsFatal ==
    /\ pc = "setup" => ~ConfigError(argv)
    /\ pc = "help" => (ConfigError(argv) /\ exit_status = -1)
    /\ (pc = "help" \/ exit_status = 1) => (~enabled /\ ~stopped /\ hist = NoHistory)
    /\ exit_status = 1 => (pc = "done" /\ ConfigError(argv) /\ "usage" \in Printed("stderr"))
    /\ exit_status = 0 => (pc = "done" /\ enabled /\ stopped)
    /\ enabled => pc \notin {"start", "help", "setup"}

C15_Witness ==
    /\ exit_status = 1
    /\ Len(argv) = 2
    /\ argv[1] = Arg("s", 0, UrlHttp)
    /\ argv[2] = Arg("g", 54, << >>)

\* C16: a chunk that does not fit is dropped silently and reported as
\* consumed, so the capture never makes the transfer fail, and a response
\* larger than the capacity with the expected status is a success
C16_TruncatesSilently ==
    /\ hist.delivered > SERVER_RESPONSE_BUFFER_SIZE => rc # CURLE_WRITE_ERROR
    /\ (/\ pc = "send_return"
        /\ hist.delivered > SERVER_RESPONSE_BUFFER_SIZE
        /\ hist.http_code = ExpectedCode(server_type)
        /\ rc \notin {CURLE_RECV_ERROR, CURLE_ABORTED_BY_CALLBACK}) => result

\* the positions of an iteration before its timer check
BeforeTimer == {"wait", "stopcheck", "process", "timer"} \cup InSend

\* C17: every iteration that runs to its end checks the timer event exactly
\* once, whatever happened to the message, and prints the statistics exactly
\* when that check returned true
C17_TimerOncePerIteration ==
    [][ /\ (pc' = "loop" /\ pc \notin {"loop", "setup"}) =>
              /\ pc = "timer"
              /\ hist'.timerChecks = 1
              /\ hist'.statistics = IF hist'.timerEvent = <<TRUE>> THEN 1 ELSE 0
        /\ pc' \in BeforeTimer =>
              (hist'.timerChecks = 0 /\ hist'.statistics = 0) ]_vars

C17_Witness ==
    /\ pc = "loop"
    /\ hist.timerChecks = 1
    /\ hist.statistics = 1
    /\ hist.sendCalls = 1
    /\ ~result

\* the texts of the failure diagnostics of send()
FailureTexts ==
    {TransportMessage(r) : r \in {CURLE_COULDNT_CONNECT, CURLE_WRITE_ERROR,
                                  CURLE_RECV_ERROR, CURLE_ABORTED_BY_CALLBACK}}
    \cup {StatusStderrMessage(c) : c \in HttpCodes} \cup StatusMismatchTexts

\* C18: when send() returns false after the handle was acquired, stderr and
\* the log both have a failure diagnostic, and the response body is part of
\* the diagnostics only when verbose diagnostics are on (and it is not empty)
C18_FailureDiagnostics ==
    (pc = "send_return" /\ hist.curlInits = 1 /\ ~result) =>
        /\ Printed("stderr") \cap FailureTexts # {}
        /\ Printed("log") \cap FailureTexts # {}
        /\ ResponseBody \in (Printed("stderr") \cup Printed("log")) =>
             VERBOSITY_PRINT_DETAILS \in verbosity

\* C19: sensorsData.update is called exactly once for a valid decoded
\* message and never for an empty, undecoded or invalid one, which leaves
\* the tracker as it was and the bitmask of the send decision 0
C19_TrackerOnlyValid ==
    [][ /\ sensorsData' # sensorsData =>
              (pc = "process" /\ ~message.isEmpty /\ ~message.isUndecoded /\ message.isValid)
        /\ hist'.processed =>
              IF ~message'.isEmpty /\ ~message'.isUndecoded /\ message'.isValid
                THEN hist'.updates = 1 /\ Len(hist'.updateResult) = 1
                ELSE /\ hist'.updates = 0
                     /\ hist'.updateResult = << >>
                     /\ hist'.decided \in {<< >>, <<{}>>}
                     /\ (~message'.isEmpty /\ ~message'.isUndecoded) => hist'.decided = <<{}>>
        /\ ~hist'.processed => hist'.updates = 0 ]_vars

C19_Witness ==
    /\ Decoded
    /\ ~message.isValid
    /\ hist.updates = 0
    /\ hist.decided = <<{}>>
    /\ sensorsData = "s1"

\* C20: send() is called for an invalid message only when the override
\* policy is enabled and the protocol is REST; never for InfluxDB
C20_InvalidOnlyRestOverride ==
    (hist.waited /\ ~message.isValid /\ ~NoSend) =>
        (~changes_only /\ server_type = REST)

C20_Witness ==
    /\ ~changes_only
    /\ server_type = InfluxDB
    /\ Decoded
    /\ ~message.isValid
    /\ pc = "timer"

====
